---- MODULE Spec2Model ----
(***************************************************************************)
(* Model of apps/web/src/app/api/papers/route.ts: the GET handler of the   *)
(* /api/papers route and the entry normalizer transformEntryToPaperSummary.*)
(*                                                                         *)
(* Strings are sequences of one-character strings, so that the regular     *)
(* expressions, trim, includes, replace and startsWith of the source are   *)
(* computed character by character.  A JavaScript value is a record        *)
(* [t |-> type tag, v |-> payload].                                        *)
(***************************************************************************)
EXTENDS Integers, Sequences, FiniteSets, TLC

VARIABLES
  reqQuery,          \* searchParams.get('query'): null or a string
  reqStart,          \* searchParams.get('start')
  reqMaxResults,     \* searchParams.get('max_results')
  fault,             \* TRUE when fetch / text() / the XML parser throws
  upStatus,          \* status code of the upstream response
  feedTree,          \* what parser.parse(xmlData) returns for the upstream body
  pc,                \* position of the handler
  searchQueryValue,  \* search_query sent upstream
  sortByValue,       \* sortBy sent upstream
  start,             \* start sent upstream
  max_results,       \* max_results sent upstream
  revalidate,        \* cache lifetime handed to fetch
  parsedData,        \* the parsed tree once received
  response           \* the NextResponse returned

vars == <<reqQuery, reqStart, reqMaxResults, fault, upStatus, feedTree, pc,
          searchQueryValue, sortByValue, start, max_results, revalidate,
          parsedData, response>>

-----------------------------------------------------------------------------
(* JavaScript values *)

Undefined == [t |-> "undefined", v |-> <<>>]
JNull == [t |-> "null", v |-> <<>>]
Str(s) == [t |-> "string", v |-> s]
Num(n) == [t |-> "number", v |-> n]
Obj(r) == [t |-> "object", v |-> r]
Arr(items) == [t |-> "array", v |-> items]

\* ToBoolean
Truthy(x) ==
  CASE x.t = "undefined" -> FALSE
    [] x.t = "null" -> FALSE
    [] x.t = "string" -> x.v # <<>>
    [] x.t = "number" -> x.v # 0
    [] OTHER -> TRUE

\* typeof x === 'object' (true of null, objects and arrays)
TypeofObject(x) == x.t \in {"null", "object", "array"}

\* x[key] for a value that is not null or undefined
Get(x, key) ==
  IF x.t = "object" /\ key \in DOMAIN x.v THEN x.v[key] ELSE Undefined

\* key in x, for an object x
HasKey(x, key) ==
  x.t = "object" /\ key \in DOMAIN x.v /\ x.v[key] # Undefined

\* ToList losing the value that is not in an array
ToListArraysOnly(x) == IF x.t = "array" THEN x.v ELSE <<>>

\* lines 92, 108, 114: Array.isArray(x) ? x : (x ? [x] : [])
ToList(x) ==
  IF x.t = "array" THEN x.v ELSE IF Truthy(x) THEN <<x>> ELSE <<>>

-----------------------------------------------------------------------------
(* Strings *)

SP == " "
NL == "\n"
WhiteSpace == {SP, NL}

ABS == <<"/", "a", "b", "s", "/">>
PDF == <<"/", "p", "d", "f", "/">>
DOT_PDF == <<".", "p", "d", "f">>
HTTP == <<"h", "t", "t", "p", ":", "/", "/">>
HTTPS == <<"h", "t", "t", "p", "s", ":", "/", "/">>
PDF_TITLE == <<"p", "d", "f">>
DEFAULT_CATEGORY == <<"c", "a", "t", ":", "c", "s", ".", "A", "I">>
DEFAULT_MAX_RESULTS == <<"1", "0">>
DEFAULT_START == <<"0">>
\* 'タイトルなし' and '要約なし', each kept as one token
NO_TITLE == <<"(no title)">>
NO_SUMMARY == <<"(no summary)">>

Min(S) == CHOOSE k \in S : \A j \in S : k <= j

\* s.startsWith(p)
StartsWith(s, p) == Len(s) >= Len(p) /\ SubSeq(s, 1, Len(p)) = p

\* s.indexOf(p) + 1, 0 when p does not occur
IndexOf(s, p) ==
  LET ks == {k \in 1..(Len(s) - Len(p) + 1) : SubSeq(s, k, k + Len(p) - 1) = p}
  IN IF ks = {} THEN 0 ELSE Min(ks)

\* s.includes(p)
Includes(s, p) == IndexOf(s, p) # 0

\* s.replace(p, r) with a string pattern: the first occurrence only
ReplaceFirst(s, p, r) ==
  LET k == IndexOf(s, p)
  IN IF k = 0 THEN s
     ELSE SubSeq(s, 1, k - 1) \o r \o SubSeq(s, k + Len(p), Len(s))

RECURSIVE TrimStart(_)
TrimStart(s) ==
  IF s # <<>> /\ Head(s) \in WhiteSpace THEN TrimStart(Tail(s)) ELSE s

RECURSIVE TrimEnd(_)
TrimEnd(s) ==
  IF s # <<>> /\ s[Len(s)] \in WhiteSpace
  THEN TrimEnd(SubSeq(s, 1, Len(s) - 1)) ELSE s

\* s.trim()
Trim(s) == TrimEnd(TrimStart(s))

\* the longest prefix of s matched by \s*
RECURSIVE WsRun(_)
WsRun(s) ==
  IF s # <<>> /\ Head(s) \in WhiteSpace THEN 1 + WsRun(Tail(s)) ELSE 0

\* CollapseWs with /\s+/g for the pattern: a lone whitespace character too
\* becomes a space
RECURSIVE CollapseEveryWs(_)
CollapseEveryWs(s) ==
  IF s = <<>> THEN <<>>
  ELSE LET n == WsRun(s)
       IN IF n >= 1 THEN <<SP>> \o CollapseEveryWs(SubSeq(s, n + 1, Len(s)))
          ELSE <<Head(s)>> \o CollapseEveryWs(Tail(s))

\* s.replace(/\s\s+/g, ' ')
RECURSIVE CollapseWs(_)
CollapseWs(s) ==
  IF s = <<>> THEN <<>>
  ELSE LET n == WsRun(s)
       IN IF n >= 2 THEN <<SP>> \o CollapseWs(SubSeq(s, n + 1, Len(s)))
          ELSE <<Head(s)>> \o CollapseWs(Tail(s))

\* the longest prefix of s matched by [^v]*
RECURSIVE NonVRun(_)
NonVRun(s) ==
  IF s # <<>> /\ Head(s) # "v" THEN <<Head(s)>> \o NonVRun(Tail(s)) ELSE <<>>

\* idUrl.match(/\/abs\/([^v]+)/)?.[1]: the capture of the leftmost match,
\* undefined when nothing matches
MatchAbsId(s) ==
  LET ks == {k \in 1..(Len(s) - 5) :
               SubSeq(s, k, k + 4) = ABS /\ s[k + 5] # "v"}
  IN IF ks = {} THEN Undefined
     ELSE Str(NonVRun(SubSeq(s, Min(ks) + 5, Len(s))))

-----------------------------------------------------------------------------
(* transformEntryToPaperSummary *)

\* the predicate handed to entryLinks.find
IsPdfLink(link) ==
  /\ link # JNull
  /\ TypeofObject(link)
  /\ HasKey(link, "@_title")
  /\ Get(link, "@_title") = Str(PDF_TITLE)
  /\ Get(link, "@_href").t = "string"

\* entryLinks.find(...)?.['@_href'] ?? ''
FindPdfHref(entryLinks) ==
  LET ks == {k \in 1..Len(entryLinks) : IsPdfLink(entryLinks[k])}
  IN IF ks = {} THEN <<>> ELSE Get(entryLinks[Min(ks)], "@_href").v

\* ResolvePdfLink taking the candidate without the test of lines 101-103
ResolvePdfLinkUnchecked(entryItem, idUrl) ==
  LET found == FindPdfHref(ToList(Get(entryItem, "link")))
  IN IF found = <<>> /\ Includes(idUrl, ABS)
     THEN ReplaceFirst(idUrl, ABS, PDF) \o DOT_PDF
     ELSE found

\* lines 91-104
ResolvePdfLink(entryItem, idUrl) ==
  LET found == FindPdfHref(ToList(Get(entryItem, "link")))
  IN IF found = <<>> /\ Includes(idUrl, ABS)
     THEN LET potentialPdfLink == ReplaceFirst(idUrl, ABS, PDF) \o DOT_PDF
          IN IF StartsWith(potentialPdfLink, HTTP) \/ StartsWith(potentialPdfLink, HTTPS)
             THEN potentialPdfLink
             ELSE found
     ELSE found

\* list.map(f).filter(name => name !== null && name.length > 0), with f
\* reading the string property key, trimmed when trimIt
RECURSIVE MapFilter(_, _, _)
MapFilter(list, key, trimIt) ==
  IF list = <<>> THEN <<>>
  ELSE LET item == Head(list)
           prop == Get(item, key)
           val == IF Truthy(item) /\ prop.t = "string"
                  THEN <<IF trimIt THEN Trim(prop.v) ELSE prop.v>>
                  ELSE <<>>
           kept == IF val # <<>> /\ Len(val[1]) > 0 THEN val ELSE <<>>
       IN kept \o MapFilter(Tail(list), key, trimIt)

\* lines 107-111
ExtractAuthors(entryItem) == MapFilter(ToList(Get(entryItem, "author")), "name", TRUE)

\* lines 113-117
ExtractCategories(entryItem) ==
  MapFilter(ToList(Get(entryItem, "category")), "@_term", FALSE)

\* lines 119-121
NormalizeText(field, placeholder) ==
  IF field.t = "string" THEN CollapseWs(Trim(field.v)) ELSE placeholder

\* lines 122-123
Passthrough(field) == IF field.t = "string" THEN field.v ELSE <<>>

\* lines 86-88: the extracted identifier, Undefined when there is none
ExtractArxivId(entryItem) ==
  LET id == Get(entryItem, "id")
      idUrl == IF id.t = "string" THEN id ELSE Undefined
  IN IF Truthy(idUrl) THEN MatchAbsId(idUrl.v) ELSE Undefined

\* the PaperSummary, or JNull for a rejected entry
transformEntryToPaperSummary(entryItem) ==
  IF ~Truthy(entryItem) THEN JNull
  ELSE LET arxivId == ExtractArxivId(entryItem)
       IN IF ~Truthy(arxivId) THEN JNull
          ELSE [id |-> arxivId.v,
                title |-> NormalizeText(Get(entryItem, "title"), NO_TITLE),
                summary |-> NormalizeText(Get(entryItem, "summary"), NO_SUMMARY),
                authors |-> ExtractAuthors(entryItem),
                published |-> Passthrough(Get(entryItem, "published")),
                updated |-> Passthrough(Get(entryItem, "updated")),
                pdfLink |-> ResolvePdfLink(entryItem, Get(entryItem, "id").v),
                categories |-> ExtractCategories(entryItem)]

-----------------------------------------------------------------------------
(* GET *)

\* isArxivRawData
isArxivRawData(data) == TypeofObject(data) /\ data # JNull

\* FeedShapeOk without the test of the feed node
FeedShapeGuardOnly(data) == isArxivRawData(data)

\* line 180: the tree is an object with a feed
FeedShapeOk(data) == isArxivRawData(data) /\ Truthy(Get(data, "feed"))

\* MapTransform giving up at the first rejected entry
RECURSIVE MapTransformUntilRejected(_)
MapTransformUntilRejected(entriesArray) ==
  IF entriesArray = <<>> THEN <<>>
  ELSE LET paper == transformEntryToPaperSummary(Head(entriesArray))
       IN IF paper # JNull
          THEN <<paper>> \o MapTransformUntilRejected(Tail(entriesArray))
          ELSE <<>>

\* entriesArray.map(transformEntryToPaperSummary).filter(paper => paper !== null)
RECURSIVE MapTransform(_)
MapTransform(entriesArray) ==
  IF entriesArray = <<>> THEN <<>>
  ELSE LET paper == transformEntryToPaperSummary(Head(entriesArray))
       IN (IF paper # JNull THEN <<paper>> ELSE <<>>)
          \o MapTransform(Tail(entriesArray))

\* line 186: Array.isArray(entriesRaw) ? entriesRaw : (entriesRaw ? [entriesRaw] : [])
ToEntriesArray(entriesRaw) ==
  IF entriesRaw.t = "array" THEN entriesRaw.v
  ELSE IF Truthy(entriesRaw) THEN <<entriesRaw>> ELSE <<>>

\* lines 185-196
NormalizeEntries(entriesRaw) == MapTransform(ToEntriesArray(entriesRaw))

NoResponse == [status |-> 0, error |-> "", papers |-> <<>>]

\* lines 139-168, up to the await of fetch
BuildQuery ==
  /\ pc = "start"
  /\ LET userQuery == Truthy(reqQuery) /\ Trim(reqQuery.v) # <<>>
     IN /\ searchQueryValue' = IF userQuery THEN Trim(reqQuery.v) ELSE DEFAULT_CATEGORY
        /\ sortByValue' = IF userQuery THEN "relevance" ELSE "submittedDate"
  /\ start' = IF Truthy(reqStart) THEN reqStart.v ELSE DEFAULT_START
  /\ max_results' = IF Truthy(reqMaxResults) THEN reqMaxResults.v ELSE DEFAULT_MAX_RESULTS
  /\ revalidate' = IF Truthy(reqQuery) THEN 600 ELSE 3600
  /\ pc' = "fetching"
  /\ UNCHANGED <<reqQuery, reqStart, reqMaxResults, fault, upStatus, feedTree,
                 parsedData, response>>

\* lines 201-205: fetch, text() or the parser throws
CatchError ==
  /\ pc = "fetching"
  /\ fault
  /\ response' = [status |-> 500, error |-> "Failed to process request", papers |-> <<>>]
  /\ pc' = "done"
  /\ UNCHANGED <<reqQuery, reqStart, reqMaxResults, fault, upStatus, feedTree,
                 searchQueryValue, sortByValue, start, max_results, revalidate,
                 parsedData>>

\* lines 170-174
UpstreamError ==
  /\ pc = "fetching"
  /\ ~fault
  /\ ~(upStatus >= 200 /\ upStatus <= 299)
  /\ response' = [status |-> upStatus, error |-> "arXiv API Error", papers |-> <<>>]
  /\ pc' = "done"
  /\ UNCHANGED <<reqQuery, reqStart, reqMaxResults, fault, upStatus, feedTree,
                 searchQueryValue, sortByValue, start, max_results, revalidate,
                 parsedData>>

\* lines 176-178
ParseXml ==
  /\ pc = "fetching"
  /\ ~fault
  /\ upStatus >= 200 /\ upStatus <= 299
  /\ parsedData' = feedTree
  /\ pc' = "parsed"
  /\ UNCHANGED <<reqQuery, reqStart, reqMaxResults, fault, upStatus, feedTree,
                 searchQueryValue, sortByValue, start, max_results, revalidate,
                 response>>

\* lines 180-183
UnexpectedFormat ==
  /\ pc = "parsed"
  /\ ~FeedShapeOk(parsedData)
  /\ response' = [status |-> 500, error |-> "Unexpected format received", papers |-> <<>>]
  /\ pc' = "done"
  /\ UNCHANGED <<reqQuery, reqStart, reqMaxResults, fault, upStatus, feedTree,
                 searchQueryValue, sortByValue, start, max_results, revalidate,
                 parsedData>>

\* lines 185-199
ReturnPapers ==
  /\ pc = "parsed"
  /\ FeedShapeOk(parsedData)
  /\ response' = [status |-> 200, error |-> "",
                  papers |-> NormalizeEntries(Get(Get(parsedData, "feed"), "entry"))]
  /\ pc' = "done"
  /\ UNCHANGED <<reqQuery, reqStart, reqMaxResults, fault, upStatus, feedTree,
                 searchQueryValue, sortByValue, start, max_results, revalidate,
                 parsedData>>

Next ==
  \/ BuildQuery
  \/ CatchError
  \/ UpstreamError
  \/ ParseXml
  \/ UnexpectedFormat
  \/ ReturnPapers


-----------------------------------------------------------------------------
(* Inputs *)

MaxIdLen == 3
MaxEntries == 2
MaxLinks == 2
MaxTextLen == 5
MaxQueryLen == 3
MaxListLen == 2

SeqsUpTo(S, n) == UNION {[1..k -> S] : k \in 0..n}

X == <<"x">>
HTTP_X == HTTP \o X
HTTPS_X == HTTPS \o X

\* an entry object; a field that is Undefined is absent from the tree
Entry(id, title, summary, author, link, category) ==
  Obj([id |-> id, title |-> title, summary |-> summary, author |-> author,
       link |-> link, category |-> category,
       published |-> Undefined, updated |-> Undefined])

Link(title, href) == Obj(("@_title" :> title) @@ ("@_href" :> href))
Author(name) == Obj([name |-> name])
Category(term) == Obj("@_term" :> term)

\* the root { feed: { entry: entryField } }
Feed(entryField) == Obj([feed |-> Obj([entry |-> entryField])])

\* the entry field of the received tree
EntryField == Get(Get(parsedData, "feed"), "entry")

\* a tree without a feed node, as an upstream error document parses to
NO_FEED_ROOT == Obj([error |-> Str(X)])

\* the outcomes of the upstream exchange: success, a thrown failure, a
\* non-success status
Environments == {<<FALSE, 200>>, <<TRUE, 200>>, <<FALSE, 503>>}

InitWith(queries, starts, maxes, trees) ==
  /\ reqQuery \in queries
  /\ reqStart \in starts
  /\ reqMaxResults \in maxes
  /\ \E env \in Environments : fault = env[1] /\ upStatus = env[2]
  /\ feedTree \in trees
  /\ pc = "start"
  /\ searchQueryValue = <<>>
  /\ sortByValue = "submittedDate"
  /\ start = <<>>
  /\ max_results = <<>>
  /\ revalidate = 0
  /\ parsedData = Undefined
  /\ response = NoResponse

Returned == pc = "done" /\ response.status = 200

-----------------------------------------------------------------------------
(* Identifier extraction: entries with ids <prefix>/abs/<ID>[v<N>] *)

IdChars == {"7", "s", "v"}
Digits == {"7", "2", "1", "0"}
IdTokens == SeqsUpTo(IdChars, MaxIdLen) \ {<<>>}
IdPrefixes == {HTTP_X, HTTPS_X, X}
VersionSuffixes == {<<>>, <<"v", "2">>, <<"v", "1", "0">>}

\* s is v<N>, N a non-empty run of digits
IsVersionSuffix(s) ==
  Len(s) >= 2 /\ s[1] = "v" /\ \A k \in 2..Len(s) : s[k] \in Digits

\* tok does not itself end in a version suffix, so that <ID>v<N> reads one way
VersionFree(tok) ==
  \A k \in 1..Len(tok) : ~IsVersionSuffix(SubSeq(tok, k, Len(tok)))

ComposeId(prefix, tok, ver) == prefix \o ABS \o tok \o ver

WellFormedIds ==
  {ComposeId(p, tok, ver) :
     p \in IdPrefixes, tok \in {t \in IdTokens : VersionFree(t)}, ver \in VersionSuffixes}

PlainEntry(id) == Entry(id, Undefined, Undefined, Undefined, Undefined, Undefined)

IdTrees == {Feed(PlainEntry(Str(id))) : id \in WellFormedIds}

InitId == InitWith({JNull}, {JNull}, {JNull}, IdTrees \cup {NO_FEED_ROOT})
SpecId == InitId /\ [][Next]_vars

\* C1: for every entry whose id is <prefix>/abs/<ID> or <prefix>/abs/<ID>v<N>,
\* the emitted PaperSummary.id is exactly <ID>.
C1_IdIsExactlyTheToken ==
  Returned =>
    \A p \in IdPrefixes, tok \in IdTokens, ver \in VersionSuffixes :
      (VersionFree(tok) /\ Get(EntryField, "id") = Str(ComposeId(p, tok, ver)))
        => /\ Len(response.papers) = 1
           /\ response.papers[1].id = tok

-----------------------------------------------------------------------------
(* Collections of entries *)

TITLE_A == <<"A">>

\* ids of the entries of a feed: absent, a number, strings without /abs/,
\* and well-formed ids
EntryIds ==
  {Undefined, Num(7), Str(X \o <<"7">>),
   Str(ComposeId(HTTP_X, <<"7">>, <<>>)),
   Str(ComposeId(HTTP_X, <<"7">>, <<"v", "2">>)),
   Str(ComposeId(HTTPS_X, <<"s", "7">>, <<>>))}

\* the elements of feed.entry: entry objects, and the empty string an empty
\* <entry/> element parses to
EntryPool ==
  {Entry(id, title, Undefined, Undefined, Undefined, Undefined) :
     id \in EntryIds, title \in {Undefined, Str(TITLE_A)}}
  \cup {Str(<<>>)}

EntryFields ==
  {Undefined} \cup EntryPool \cup {Arr(es) : es \in SeqsUpTo(EntryPool, MaxEntries)}

EntryTrees == {Feed(f) : f \in EntryFields}

InitEntries == InitWith({JNull}, {JNull}, {JNull}, EntryTrees \cup {NO_FEED_ROOT})
SpecEntries == InitEntries /\ [][Next]_vars

\* feed.entry read as a sequence: absent is empty, a single value is alone
EntriesReceived ==
  CASE EntryField.t = "array" -> EntryField.v
    [] EntryField.t = "undefined" -> <<>>
    [] OTHER -> <<EntryField>>

\* the id of the entry is absent, not a string, or a string without /abs/
MalformedId(e) ==
  LET id == Get(e, "id")
  IN id.t # "string" \/ \A k \in 1..(Len(id.v) - 4) : SubSeq(id.v, k, k + 4) # ABS

WithId(e, id) == Obj([e.v EXCEPT !["id"] = Str(id)])

ReplaceAt(seq, i, x) == [seq EXCEPT ![i] = x]
RemoveAt(seq, k) == SubSeq(seq, 1, k - 1) \o SubSeq(seq, k + 1, Len(seq))

\* C2: an entry whose id is absent, not a string or without /abs/ yields no
\* PaperSummary, and the output is the output of the same sequence with a
\* well-formed id restored in that entry, less exactly that one record.
C2_DropIsExactlyOneRecord ==
  Returned =>
    \A i \in 1..Len(EntriesReceived) :
      LET e == EntriesReceived[i]
      IN (e.t = "object" /\ MalformedId(e)) =>
           /\ transformEntryToPaperSummary(e) = JNull
           /\ \A id \in WellFormedIds :
                LET restored == NormalizeEntries(Arr(ReplaceAt(EntriesReceived, i, WithId(e, id))))
                IN /\ Len(response.papers) = Len(restored) - 1
                   /\ \E k \in 1..Len(restored) : response.papers = RemoveAt(restored, k)

\* the positions of the entries the normalizer does not reject
Survivors ==
  {i \in 1..Len(EntriesReceived) :
     transformEntryToPaperSummary(EntriesReceived[i]) # JNull}

\* the k-th survivor, in input order
NthSurvivor(k) ==
  CHOOSE i \in Survivors : Cardinality({j \in Survivors : j <= i}) = k

\* the received tree passes the checks of line 180
FeedPresent ==
  /\ pc = "done"
  /\ parsedData.t \in {"object", "array"}
  /\ Truthy(Get(parsedData, "feed"))

\* C3: whatever feed.entry is (absent, one entry, a sequence), the handler
\* answers with a sequence, which is in input order the normalizer's result
\* for exactly the entries it does not reject.
C3_PapersAreTheSurvivorsInOrder ==
  FeedPresent =>
    /\ response.status = 200
    /\ Len(response.papers) = Cardinality(Survivors)
    /\ \A k \in 1..Len(response.papers) :
         response.papers[k] = transformEntryToPaperSummary(EntriesReceived[NthSurvivor(k)])

\* a rejected entry stands before a surviving one
C3_Witness ==
  /\ Returned
  /\ Len(EntriesReceived) = 2
  /\ 1 \notin Survivors
  /\ 2 \in Survivors
  /\ Len(response.papers) = 1

-----------------------------------------------------------------------------
(* PDF links: one entry, its id and its link field *)

SEVEN == <<"7">>
URL_ONE == HTTP_X \o <<"/", "1">>
URL_TWO == HTTPS_X \o <<"/", "2">>
RELATIVE_REF == <<"p", "/", "1">>
DOI_TITLE == <<"d", "o", "i">>

PdfIds ==
  {ComposeId(HTTP_X, SEVEN, <<"v", "2">>),
   ComposeId(HTTPS_X, SEVEN, <<>>),
   ComposeId(X, SEVEN, <<>>),
   ComposeId(HTTP_X, SEVEN, ABS \o SEVEN)}

Hrefs == {Undefined, Str(<<>>), Str(URL_ONE), Str(URL_TWO), Str(RELATIVE_REF), Num(7)}

LinkPool ==
  {Link(Str(PDF_TITLE), h) : h \in Hrefs}
  \cup {Link(Str(DOI_TITLE), Str(URL_TWO)), Link(Undefined, Str(URL_ONE)), Str(<<>>)}

LinkFields ==
  {Undefined} \cup LinkPool
  \cup {Arr(ls) : ls \in SeqsUpTo(LinkPool, MaxLinks)}

PdfTrees ==
  {Feed(Entry(Str(id), Undefined, Undefined, Undefined, link, Undefined)) :
     id \in PdfIds, link \in LinkFields}

InitPdf == InitWith({JNull}, {JNull}, {JNull}, PdfTrees \cup {NO_FEED_ROOT})
SpecPdf == InitPdf /\ [][Next]_vars

\* the link field of the one entry, read as a sequence
LinksReceived ==
  LET link == Get(EntryField, "link")
  IN CASE link.t = "array" -> link.v
       [] link.t = "undefined" -> <<>>
       [] OTHER -> <<link>>

\* the positions of the links titled 'pdf' whose href is a non-empty string
UsablePdfLinks ==
  {k \in 1..Len(LinksReceived) :
     /\ Get(LinksReceived[k], "@_title") = Str(PDF_TITLE)
     /\ Get(LinksReceived[k], "@_href").t = "string"
     /\ Get(LinksReceived[k], "@_href").v # <<>>}

IsAbsoluteUrl(s) ==
  \/ (Len(s) >= 7 /\ SubSeq(s, 1, 7) = HTTP)
  \/ (Len(s) >= 8 /\ SubSeq(s, 1, 8) = HTTPS)

\* C4: the pdfLink of every emitted PaperSummary is the empty string or an
\* absolute URL (it begins with http:// or https://).
C4_PdfLinkEmptyOrAbsolute ==
  Returned =>
    \A k \in 1..Len(response.papers) :
      response.papers[k].pdfLink = <<>> \/ IsAbsoluteUrl(response.papers[k].pdfLink)

\* the id with its first /abs/ replaced by /pdf/ and .pdf appended
PdfCandidate(id) ==
  LET k == CHOOSE i \in 1..(Len(id) - 4) :
             /\ SubSeq(id, i, i + 4) = ABS
             /\ \A j \in 1..(i - 1) : SubSeq(id, j, j + 4) # ABS
  IN SubSeq(id, 1, k - 1) \o PDF \o SubSeq(id, k + 5, Len(id)) \o DOT_PDF

\* C5: when no link titled 'pdf' has a usable href, the entry is still
\* emitted, and its pdfLink is the id with /abs/ replaced by /pdf/ and .pdf
\* appended if that begins with http:// or https://, and is empty otherwise.
C5_PdfFallbackFromId ==
  (Returned /\ UsablePdfLinks = {}) =>
    /\ Len(response.papers) = 1
    /\ LET id == Get(EntryField, "id").v
           pdfLink == response.papers[1].pdfLink
       IN pdfLink = IF IsAbsoluteUrl(PdfCandidate(id)) THEN PdfCandidate(id) ELSE <<>>

\* the fallback is taken past a link titled 'pdf' that has no usable href
C5_Witness ==
  /\ Returned
  /\ UsablePdfLinks = {}
  /\ \E k \in 1..Len(LinksReceived) : Get(LinksReceived[k], "@_title") = Str(PDF_TITLE)
  /\ Len(response.papers) = 1
  /\ response.papers[1].pdfLink =
       HTTP_X \o PDF \o SEVEN \o <<"v", "2">> \o DOT_PDF

\* C10: when some link is titled 'pdf' and has a non-empty string href,
\* pdfLink is the href of the first such link; links titled 'pdf' with an
\* empty or missing href are passed over.
C10_FirstUsablePdfLinkWins ==
  (Returned /\ UsablePdfLinks # {}) =>
    /\ Len(response.papers) = 1
    /\ response.papers[1].pdfLink = Get(LinksReceived[Min(UsablePdfLinks)], "@_href").v

-----------------------------------------------------------------------------
(* Title and summary: one entry, its title and summary fields *)

GOOD_ID == ComposeId(HTTP_X, SEVEN, <<>>)
TextChars == {"A", SP, NL}

\* absent, a number (parseTagValue turns a numeric text into one), a string
TextFields == {Undefined, Num(7)} \cup {Str(t) : t \in SeqsUpTo(TextChars, MaxTextLen)}
FewTextFields == {Undefined, Str(<<"A", SP, SP, "A">>)}

TextTrees ==
  {Feed(Entry(Str(GOOD_ID), title, summary, Undefined, Undefined, Undefined)) :
     title \in TextFields, summary \in FewTextFields}
  \cup
  {Feed(Entry(Str(GOOD_ID), title, summary, Undefined, Undefined, Undefined)) :
     title \in FewTextFields, summary \in TextFields}

InitText == InitWith({JNull}, {JNull}, {JNull}, TextTrees \cup {NO_FEED_ROOT})
SpecText == InitText /\ [][Next]_vars

IsWs(c) == c \in WhiteSpace

\* s without its leading and trailing whitespace: from its first to its last
\* character that is not whitespace
Trimmed(s) ==
  LET solid == {k \in 1..Len(s) : ~IsWs(s[k])}
  IN IF solid = {} THEN <<>>
     ELSE SubSeq(s, Min(solid), CHOOSE k \in solid : \A j \in solid : j <= k)

\* what position k of t contributes once every run of two or more whitespace
\* characters has become one space: a character outside such a run stays, the
\* first character of such a run becomes a space, the others vanish
Contribution(t, k) ==
  LET before == k > 1 /\ IsWs(t[k - 1])
      after == k < Len(t) /\ IsWs(t[k + 1])
  IN IF ~IsWs(t[k]) \/ (~before /\ ~after) THEN <<t[k]>>
     ELSE IF before THEN <<>> ELSE <<SP>>

RECURSIVE Contributions(_, _)
Contributions(t, k) ==
  IF k > Len(t) THEN <<>> ELSE Contribution(t, k) \o Contributions(t, k + 1)

NoOuterWs(s) == s = <<>> \/ (~IsWs(s[1]) /\ ~IsWs(s[Len(s)]))
NoAdjacentWs(s) == \A k \in 1..(Len(s) - 1) : ~(IsWs(s[k]) /\ IsWs(s[k + 1]))
OnlySpaces(s) == \A k \in 1..Len(s) : IsWs(s[k]) => s[k] = SP

\* the output field is the trimmed input with its runs of two or more
\* whitespace characters collapsed, or the placeholder
TextCollapsed(field, out, placeholder) ==
  IF field.t = "string"
  THEN /\ out = Contributions(Trimmed(field.v), 1)
       /\ NoOuterWs(out)
       /\ NoAdjacentWs(out)
  ELSE out = placeholder /\ placeholder # <<>>

\* C6 as amended: a string title (summary) comes out trimmed, with every run
\* of two or more whitespace characters collapsed into one space and a
\* whitespace character standing alone kept as it is (so a lone newline
\* stays a newline); no leading, trailing or adjacent whitespace; an absent or
\* non-string field gives the fixed non-empty placeholder.
C6_CollapsedKeepingLoneWhitespace ==
  Returned =>
    /\ Len(response.papers) = 1
    /\ TextCollapsed(Get(EntryField, "title"), response.papers[1].title, NO_TITLE)
    /\ TextCollapsed(Get(EntryField, "summary"), response.papers[1].summary, NO_SUMMARY)

\* C6: as above, and the result is single-space-separated text: the only
\* whitespace character left in it is the space.
C6_SingleSpaceSeparated ==
  Returned =>
    /\ C6_CollapsedKeepingLoneWhitespace
    /\ Get(EntryField, "title").t = "string" => OnlySpaces(response.papers[1].title)
    /\ Get(EntryField, "summary").t = "string" => OnlySpaces(response.papers[1].summary)

\* a title with leading whitespace and an inner run of two is normalized
C6_Witness ==
  /\ Returned
  /\ Get(EntryField, "title") = Str(<<NL, "A", SP, NL>> \o <<"A">>)
  /\ response.papers[1].title = <<"A", SP, "A">>

-----------------------------------------------------------------------------
(* Single value or sequence: one entry, its author, category and link *)

NAME_B == <<SP, "B", SP>>
NAME_C == <<"C">>
TERM_CS == <<"c", "s">>

\* values of one author / category / link element: objects, and the
\* primitives an element without children parses to
AuthorPool ==
  {Author(Str(NAME_B)), Author(Str(NAME_C)), Author(Undefined), Author(Num(7)),
   Author(Str(<<>>)), Str(NAME_C), Str(<<>>), Num(0)}
CategoryPool ==
  {Category(Str(TERM_CS)), Category(Str(TITLE_A)), Category(Undefined),
   Category(Num(7)), Category(Str(<<>>)), Str(TERM_CS), Str(<<>>), Num(0)}

\* a field holding nothing, one value, or a sequence of values
ShapesOf(pool) == {Undefined} \cup pool \cup {Arr(xs) : xs \in SeqsUpTo(pool, MaxListLen)}

FewAuthors == {Undefined, Author(Str(NAME_C))}
FewCategories == {Undefined, Arr(<<Category(Str(TERM_CS))>>)}
FewLinks == {Undefined, Link(Str(PDF_TITLE), Str(URL_ONE))}

ShapeTrees ==
  {Feed(Entry(Str(GOOD_ID), Undefined, Undefined, a, l, c)) :
     a \in ShapesOf(AuthorPool), l \in FewLinks, c \in FewCategories}
  \cup
  {Feed(Entry(Str(GOOD_ID), Undefined, Undefined, a, l, c)) :
     a \in FewAuthors, l \in FewLinks, c \in ShapesOf(CategoryPool)}
  \cup
  {Feed(Entry(Str(GOOD_ID), Undefined, Undefined, a, l, c)) :
     a \in FewAuthors, l \in ShapesOf(LinkPool), c \in FewCategories}

InitShape == InitWith({JNull}, {JNull}, {JNull}, ShapeTrees \cup {NO_FEED_ROOT})
SpecShape == InitShape /\ [][Next]_vars

WithField(e, key, value) == Obj([e.v EXCEPT ![key] = value])

\* the same entry with the field expressed the other way: a single value as
\* the one-element sequence and back, an absent field as the empty sequence
\* and back; any other field value has no other expression
OtherExpression(value) ==
  IF value.t = "undefined" THEN Arr(<<>>)
  ELSE IF value.t # "array" THEN Arr(<<value>>)
  ELSE IF value.v = <<>> THEN Undefined
  ELSE IF Len(value.v) = 1 /\ value.v[1].t # "array" THEN value.v[1]
  ELSE value

\* C7: for author, category and link alike, the entry gives the same result
\* with a value x carried as a single value as with the one-element sequence
\* [x], and with the field absent as with the empty sequence.
C7_SingleEqualsOneElementSequence ==
  Returned =>
    /\ Len(response.papers) = 1
    /\ \A key \in {"author", "category", "link"} :
         <<response.papers[1]>> =
           NormalizeEntries(WithField(EntryField, key, OtherExpression(Get(EntryField, key))))

\* a single author object, not wrapped in a sequence, is read
C7_Witness ==
  /\ Returned
  /\ Get(EntryField, "author") = Author(Str(NAME_B))
  /\ Get(EntryField, "link").t = "object"
  /\ response.papers[1].authors = <<<<"B">>>>
  /\ response.papers[1].pdfLink = URL_ONE

-----------------------------------------------------------------------------
(* The request and the root of the tree *)

QueryChars == {"a", SP}
Queries == {JNull} \cup {Str(q) : q \in SeqsUpTo(QueryChars, MaxQueryLen)}
Starts == {JNull, Str(<<>>), Str(<<"5">>)}
MaxResults == {JNull, Str(<<"2", "0">>)}

EMPTY_OBJECT == Obj(<<>>)

\* null, primitives, objects without a feed node, a feed that is empty text,
\* the feed without entries, feeds with entries
Roots ==
  {JNull, Str(X), Str(<<>>), Num(7), Num(0), Arr(<<>>), EMPTY_OBJECT, NO_FEED_ROOT,
   Obj([feed |-> Str(<<>>)]), Obj([feed |-> EMPTY_OBJECT]), Feed(Arr(<<>>)),
   Feed(PlainEntry(Str(GOOD_ID))), Feed(PlainEntry(Undefined)),
   Feed(Arr(<<PlainEntry(Str(GOOD_ID)), PlainEntry(Str(GOOD_ID))>>))}

Init == InitWith(Queries, Starts, MaxResults, Roots)
Spec == Init /\ [][Next]_vars

\* the handler went through fetch and parse without a failure
Parsed == pc = "done" /\ ~fault /\ upStatus = 200

UnexpectedFormatError ==
  response = [status |-> 500, error |-> "Unexpected format received", papers |-> <<>>]

\* the parsed value is null, a primitive, or an object without a feed node
MalformedRoot ==
  \/ parsedData.t \in {"null", "string", "number"}
  \/ (parsedData.t = "object" /\ "feed" \notin DOMAIN parsedData.v)

\* C8: after a successful fetch and parse, a parsed value that is null, a
\* primitive or an object without a feed node gets the 'unexpected format'
\* error with status 500, never a success; the root { feed: {} } gets a
\* success carrying the empty sequence.
C8_RootShapeDecidesOutcome ==
  Parsed =>
    /\ MalformedRoot => (UnexpectedFormatError /\ response.status # 200)
    /\ parsedData = Obj([feed |-> EMPTY_OBJECT]) =>
         response = [status |-> 200, error |-> "", papers |-> <<>>]

\* an object without a feed node was received and answered with the error
C8_Witness ==
  /\ Parsed
  /\ parsedData = NO_FEED_ROOT
  /\ response.status = 500

\* the query parameter is absent, empty or whitespace only
BlankQuery ==
  reqQuery.t = "null" \/ \A k \in 1..Len(reqQuery.v) : IsWs(reqQuery.v[k])

\* C9: a non-blank query is used trimmed, with relevance sort and the cache
\* lifetime 600; a blank or absent query falls back to the default category
\* filter, with date ordering and the cache lifetime 3600.
C9_QueryDecidesSortAndLifetime ==
  pc # "start" =>
    IF BlankQuery
    THEN /\ searchQueryValue = DEFAULT_CATEGORY
         /\ sortByValue = "submittedDate"
         /\ revalidate = 3600
    ELSE /\ searchQueryValue = Trimmed(reqQuery.v)
         /\ sortByValue = "relevance"
         /\ revalidate = 600

====
